---- MODULE Spec2Model ----
(***************************************************************************)
(* Model of the Apollo MCP server: the request-scoped credential           *)
(* (tools/base.py), the two transport handlers (server.py, handle_sse and  *)
(* handle_streamable_http) and the dispatcher call_tool with the adapter   *)
(* functions of tools/*.py.                                                *)
(*                                                                         *)
(* The specifications share the variables:                                 *)
(*   Spec          transports: execution contexts that each run one request *)
(*                 handler at a time, one request after the other, tool     *)
(*                 calls resolving the credential from their context;       *)
(*   SpecDispatch  one call_tool invocation at a time, over every tool      *)
(*                 name, every shape of the checked arguments, every        *)
(*                 credential situation and every upstream outcome          *)
(*                 (SpecDispatchFair: the same with fair steps);            *)
(*   SpecRequest   one call_tool invocation at a time, with an optional     *)
(*                 argument and the elements of its lists, to the request   *)
(*                 the adapter hands to httpx;                              *)
(*   SpecLifespan  the application from before its start-up to its          *)
(*                 shutdown, serving requests in between.                   *)
(***************************************************************************)
EXTENDS Naturals, Integers, Sequences, FiniteSets, TLC

\* ------------------------------------------------------------------ bounds
\* execution contexts (tasks) that can run a request handler at the same time
NumCtx == 2

Ctx == 1..NumCtx

\* execution contexts that run handlers in SpecLifespan
NumServed == 1

Served == 1..NumServed

\* ------------------------------------------------------------- credentials
\* MISSING: the ContextVar has no value in the context (get raises LookupError)
MISSING == "<missing>"
\* the request carries no x-auth-token header (headers.get returns None)
NoHeader == "<no-header>"
\* header bytes that are not valid UTF-8 (stateless transport only)
BadBytes == "<bad-utf8>"
\* os.getenv("APOLLO_API_KEY") is unset
NoEnv == "<no-env>"
\* get_apollo_client returned None
NoClient == "<none>"

Tokens == {"tokA", "tokB"}
EnvKey == "envkey"
EnvValues == {NoEnv, "", EnvKey}
NoCall == "<no-call>"
CtxValues == {MISSING, ""} \cup Tokens
SseHeaders == {NoHeader} \cup Tokens
HttpHeaders == {NoHeader, BadBytes} \cup Tokens
\* no POST /messages/ request yet
NoPost == "<no-post>"

VARIABLES
    env,        \* APOLLO_API_KEY of the process
    auth_token_context, \* [c]: value of the ContextVar in execution context c
    hpc,        \* [c]: "idle", or "serving" while a handler is in its try block
    htransport, \* [c]: "sse" or "http", the handler running in c
    hhdr,       \* [c]: x-auth-token header of the request being handled
    htoken,     \* [c]: Token.old_value returned by auth_token_context.set
    inv,        \* [c]: NoCall, or the credential of the upstream call in flight
    stale,      \* [c]: history, tokens of requests in c that failed mid-call
    scopeBefore,\* [c]: history, value of the ContextVar just before the set
    lastExit,   \* history: how the last handler left
    dphase,     \* position of the current call_tool invocation
    dname,      \* its tool name
    dargs,      \* its arguments mapping, over the arguments the code looks at
    dscope,     \* value of auth_token_context the adapter found
    dtoken,     \* what get_auth_token did in the adapter
    dadapter,   \* what the adapter function returned
    dresult,    \* what call_tool returned
    dcalls,     \* upstream HTTP calls issued by the invocation
    dopt,       \* the optional argument the arguments mapping holds, if any
    dlist,      \* the elements of the list-valued arguments it holds
    doutcome,   \* how the awaited upstream call ended
    lifecycle,  \* "Starting", "Running" or "ShuttingDown": position of lifespan
    run_loop,   \* "idle", "started" or "stopped": session_manager.run()
    shutdowns,  \* history: times the finally clause of lifespan was entered
    hpost       \* history: x-auth-token header of the last POST /messages/

tvars == <<auth_token_context, hpc, htransport, hhdr, htoken, inv, stale,
           scopeBefore, lastExit>>
dvars == <<dphase, dname, dargs, dscope, dtoken, dadapter, dresult, dcalls,
           dopt, dlist, doutcome>>
lvars == <<lifecycle, run_loop, shutdowns, hpost>>
vars == <<env, tvars, dvars, lvars>>

Never == "<never>"

\* ------------------------------------------------------- tools/base.py
\* truthiness of a str-or-None value (`if not token`)
Falsy(v) == v \in {"", NoEnv, NoHeader, MISSING}

\* get_auth_token: [ok |-> TRUE, token] or [ok |-> FALSE] (RuntimeError)
get_auth_token_no_fallback(v, e) ==
    IF v # MISSING /\ ~Falsy(v) THEN [ok |-> TRUE, token |-> v]
    ELSE [ok |-> FALSE, token |-> NoClient]

get_auth_token_env_first(v, e) ==
    IF ~Falsy(e) THEN [ok |-> TRUE, token |-> e]
    ELSE IF v # MISSING /\ ~Falsy(v) THEN [ok |-> TRUE, token |-> v]
    ELSE [ok |-> FALSE, token |-> NoClient]

get_auth_token(v, e) ==
    IF v # MISSING
    THEN IF ~Falsy(v) THEN [ok |-> TRUE, token |-> v]
         ELSE IF ~Falsy(e) THEN [ok |-> TRUE, token |-> e]
         ELSE [ok |-> FALSE, token |-> NoClient]
    ELSE IF ~Falsy(e) THEN [ok |-> TRUE, token |-> e]
         ELSE [ok |-> FALSE, token |-> NoClient]

\* get_apollo_client: the x-api-key of the headers dict, or NoClient when
\* get_auth_token raised (the function then returns None)
get_apollo_client(v, e) ==
    LET t == get_auth_token(v, e) IN IF t.ok THEN t.token ELSE NoClient

\* auth_token_context is a ContextVar: a write (set or reset) changes the
\* binding in the current context only
ContextWriteGlobal(cx, c, v) == [d \in Ctx |-> v]

ContextWrite(cx, c, v) == [cx EXCEPT ![c] = v]

\* `auth_token or ""`
OrEmpty(h) == IF h = NoHeader THEN "" ELSE h

\* --------------------------------------------------- server.py: lifespan
\* Starlette(lifespan=lifespan) under uvicorn.run: routes are served once
\* the lifespan has yielded and until it is resumed for the shutdown
AcceptingAlways == TRUE

Accepting == lifecycle = "Running"

\* lines 2349-2352: `async with session_manager.run():` is entered, the
\* start is logged and the function yields to the server
lifespan_startup ==
    /\ lifecycle = "Starting"
    /\ run_loop = "idle"
    /\ run_loop' = "started"
    /\ lifecycle' = "Running"
    /\ UNCHANGED <<env, tvars, dvars, shutdowns, hpost>>

\* lines 2353-2354: the server resumes the function at its shutdown, the
\* finally clause logs it and the run() context is left; uvicorn.run then
\* returns and main returns 0
lifespan_shutdown ==
    /\ lifecycle = "Running"
    /\ lifecycle' = "ShuttingDown"
    /\ run_loop' = "stopped"
    /\ shutdowns' = shutdowns + 1
    /\ UNCHANGED <<env, tvars, dvars, hpost>>

\* ------------------------------------------------- server.py: transports
\* the finally clause: auth_token_context.reset(token) on every exit path
ScopeExitOnReturnOnly(kind, cx, c, old) ==
    IF kind = "return" THEN ContextWrite(cx, c, old) ELSE cx

ScopeExit(kind, cx, c, old) == ContextWrite(cx, c, old)

\* lines 2304-2307 / 2334-2340: read the header, set the credential. A
\* handler starts in a context in which no other handler is running
\* (concurrent requests are separate tasks, each with its own context).
Enter(c, tr, h) ==
    /\ Accepting
    /\ hpc[c] = "idle"
    /\ hpc' = [hpc EXCEPT ![c] = "serving"]
    /\ htransport' = [htransport EXCEPT ![c] = tr]
    /\ hhdr' = [hhdr EXCEPT ![c] = h]
    /\ htoken' = [htoken EXCEPT ![c] = auth_token_context[c]]
    /\ scopeBefore' = [scopeBefore EXCEPT ![c] = auth_token_context[c]]
    /\ auth_token_context' = ContextWrite(auth_token_context, c, OrEmpty(h))
    /\ UNCHANGED <<env, lvars, inv, stale, lastExit, dvars>>

handle_sse(c, h) ==
    /\ h \in SseHeaders
    /\ Enter(c, "sse", h)

handle_streamable_http(c, h) ==
    /\ h \in HttpHeaders \ {BadBytes}
    /\ Enter(c, "http", h)

\* the header is decoded after the credential was set, outside the try
handle_streamable_http_decode_error_after_set(c) ==
    /\ Accepting
    /\ hpc[c] = "idle"
    /\ auth_token_context' = ContextWrite(auth_token_context, c, "")
    /\ lastExit' = "decode"
    /\ UNCHANGED <<env, lvars, hpc, htransport, hhdr, htoken, inv, stale,
                   scopeBefore, dvars>>

\* line 2337: auth_token.decode('utf-8') raises before the credential is set
handle_streamable_http_decode_error(c) ==
    /\ Accepting
    /\ hpc[c] = "idle"
    /\ lastExit' = "decode"
    /\ UNCHANGED <<env, lvars, auth_token_context, hpc, htransport, hhdr, htoken, inv,
                   stale, scopeBefore, dvars>>

\* a dispatcher of its own behind the stateless transport, one that does not
\* fall back to APOLLO_API_KEY
tool_call_start_per_transport(c) ==
    /\ hpc[c] = "serving"
    /\ inv[c] = NoCall
    /\ inv' = [inv EXCEPT ![c] =
                IF htransport[c] = "http"
                THEN get_auth_token_no_fallback(auth_token_context[c], env).token
                ELSE get_apollo_client(auth_token_context[c], env)]
    /\ UNCHANGED <<env, lvars, auth_token_context, hpc, htransport, hhdr, htoken,
                   stale, scopeBefore, lastExit, dvars>>

\* a tool invocation delivered to the dispatcher while the handler is inside
\* its try block: the adapter builds its headers and issues the upstream
\* call. Both transports run the one Server object `app` (app.run in
\* handle_sse, StreamableHTTPSessionManager(app=app)), whose call_tool this is
tool_call_start(c) ==
    /\ hpc[c] = "serving"
    /\ inv[c] = NoCall
    /\ inv' = [inv EXCEPT ![c] = get_apollo_client(auth_token_context[c], env)]
    /\ UNCHANGED <<env, lvars, auth_token_context, hpc, htransport, hhdr, htoken,
                   stale, scopeBefore, lastExit, dvars>>

\* the POST handler takes the credential of its own request for the
\* invocation it delivers
handle_post_message_own_scope(c, h) ==
    /\ hpc[c] = "serving"
    /\ htransport[c] = "sse"
    /\ inv[c] = NoCall
    /\ hpost' = h
    /\ auth_token_context' = ContextWrite(auth_token_context, c, OrEmpty(h))
    /\ inv' = [inv EXCEPT ![c] = get_apollo_client(OrEmpty(h), env)]
    /\ UNCHANGED <<env, lifecycle, run_loop, shutdowns, hpc, htransport, hhdr,
                   htoken, stale, scopeBefore, lastExit, dvars>>

\* Mount("/messages/", app=sse.handle_post_message): a POST with header h
\* for the open connection of context c hands a tool invocation to the
\* app.run of that connection. The route is the transport's own handler:
\* nothing of server.py reads the POST's headers or writes
\* auth_token_context for it, and call_tool runs in the context of
\* handle_sse
handle_post_message(c, h) ==
    /\ hpc[c] = "serving"
    /\ htransport[c] = "sse"
    /\ inv[c] = NoCall
    /\ hpost' = h
    /\ inv' = [inv EXCEPT ![c] = get_apollo_client(auth_token_context[c], env)]
    /\ UNCHANGED <<env, lifecycle, run_loop, shutdowns, auth_token_context, hpc,
                   htransport, hhdr, htoken, stale, scopeBefore, lastExit,
                   dvars>>

\* the session manager hands a tool invocation of the request to the
\* dispatcher
stateless_tool_call(c) ==
    /\ htransport[c] = "http"
    /\ tool_call_start(c)

\* the upstream call returns and the invocation completes
tool_call_return(c) ==
    /\ hpc[c] = "serving"
    /\ inv[c] # NoCall
    /\ inv' = [inv EXCEPT ![c] = NoCall]
    /\ UNCHANGED <<env, lvars, auth_token_context, hpc, htransport, hhdr, htoken,
                   stale, scopeBefore, lastExit, dvars>>

\* the tokens of the request in c, once it has failed mid-call
Failed(c) == stale[c] \cup ({hhdr[c]} \cap Tokens)

\* the adapter throws mid-call; call_tool turns it into a result
tool_call_throw(c) ==
    /\ hpc[c] = "serving"
    /\ inv[c] # NoCall
    /\ inv' = [inv EXCEPT ![c] = NoCall]
    /\ stale' = [stale EXCEPT ![c] = Failed(c)]
    /\ UNCHANGED <<env, lvars, auth_token_context, hpc, htransport, hhdr, htoken,
                   scopeBefore, lastExit, dvars>>

\* the handler leaves its try block; an upstream call still in flight is
\* abandoned
Leave(c, kind) ==
    /\ hpc[c] = "serving"
    /\ hpc' = [hpc EXCEPT ![c] = "idle"]
    /\ auth_token_context' = ScopeExit(kind, auth_token_context, c, htoken[c])
    /\ stale' = [stale EXCEPT ![c] = IF inv[c] # NoCall THEN Failed(c) ELSE @]
    /\ inv' = [inv EXCEPT ![c] = NoCall]
    /\ htransport' = [htransport EXCEPT ![c] = "sse"]
    /\ hhdr' = [hhdr EXCEPT ![c] = NoHeader]
    /\ htoken' = [htoken EXCEPT ![c] = MISSING]
    /\ scopeBefore' = [scopeBefore EXCEPT ![c] = MISSING]
    /\ lastExit' = kind
    /\ UNCHANGED <<env, lvars, dvars>>

\* clean close of the connection / the request was answered
handler_return(c) ==
    /\ inv[c] = NoCall
    /\ Leave(c, "return")

\* an exception from sse.connect_sse / app.run / session_manager.handle_request
handler_exception(c) == Leave(c, "exception")

\* the handler's task is cancelled (client went away, timeout)
handler_cancel(c) == Leave(c, "cancel")

\* ------------------------------------------------ server.py: list_tools
\* the tool names list_tools advertises
Registry == {
    "apollo_create_account", "apollo_update_account",
    "apollo_search_accounts", "apollo_view_account",
    "apollo_update_account_stage_bulk", "apollo_update_account_owner_bulk",
    "apollo_list_account_stages", "apollo_create_call_record",
    "apollo_search_calls", "apollo_update_call", "apollo_create_contact",
    "apollo_update_contact", "apollo_search_contacts",
    "apollo_update_contact_stages", "apollo_update_contact_owners",
    "apollo_list_contact_stages", "apollo_create_deal",
    "apollo_list_all_deals", "apollo_view_deal", "apollo_update_deal",
    "apollo_list_deal_stages", "apollo_organisation_enrichment",
    "apollo_bulk_organisation_enrichment", "apollo_view_api_usage_stats",
    "apollo_list_users", "apollo_list_email_accounts",
    "apollo_get_all_lists_and_tags", "apollo_list_all_custom_fields",
    "apollo_organization_job_postings", "apollo_news_articles_search",
    "apollo_search_sequences", "apollo_add_contacts_to_sequence",
    "apollo_update_contact_status_in_sequence",
    "apollo_search_outreach_emails", "apollo_check_email_stats",
    "apollo_create_tasks", "apollo_search_tasks"}

\* the "required" list of each tool's inputSchema
RequiredOf(n) ==
    CASE n = "apollo_update_account" ->
            <<"account_id">>
      [] n = "apollo_view_account" ->
            <<"account_id">>
      [] n = "apollo_update_account_stage_bulk" ->
            <<"account_ids", "account_stage_id">>
      [] n = "apollo_update_account_owner_bulk" ->
            <<"account_ids", "owner_id">>
      [] n = "apollo_create_call_record" ->
            <<"logged", "user_ids", "contact_id">>
      [] n = "apollo_update_call" ->
            <<"call_id">>
      [] n = "apollo_update_contact" ->
            <<"contact_id">>
      [] n = "apollo_update_contact_stages" ->
            <<"contact_ids", "contact_stage_id">>
      [] n = "apollo_update_contact_owners" ->
            <<"contact_ids", "owner_id">>
      [] n = "apollo_create_deal" ->
            <<"name">>
      [] n = "apollo_view_deal" ->
            <<"opportunity_id">>
      [] n = "apollo_update_deal" ->
            <<"opportunity_id">>
      [] n = "apollo_organisation_enrichment" ->
            <<"domain">>
      [] n = "apollo_bulk_organisation_enrichment" ->
            <<"domains">>
      [] n = "apollo_organization_job_postings" ->
            <<"organization_id">>
      [] n = "apollo_news_articles_search" ->
            <<"organization_ids">>
      [] n = "apollo_add_contacts_to_sequence" ->
            <<"sequence_id", "emailer_campaign_id", "contact_ids", "send_email_from_email_account_id">>
      [] n = "apollo_update_contact_status_in_sequence" ->
            <<"emailer_campaign_ids", "contact_ids", "mode">>
      [] n = "apollo_check_email_stats" ->
            <<"email_id">>
      [] n = "apollo_create_tasks" ->
            <<"user_id", "contact_ids", "priority", "due_at", "task_type", "status">>
      [] OTHER -> <<>>

\* the arguments the dispatcher or the adapter looks at before the upstream
\* call, with the type the inputSchema gives them
ArgType(n) ==
    CASE n = "apollo_create_account" ->
            "name" :> "string" @@ "domain" :> "string"
      [] n = "apollo_update_account" ->
            "account_id" :> "string"
      [] n = "apollo_view_account" ->
            "account_id" :> "string"
      [] n = "apollo_update_account_stage_bulk" ->
            "account_ids" :> "array" @@ "account_stage_id" :> "string"
      [] n = "apollo_update_account_owner_bulk" ->
            "account_ids" :> "array" @@ "owner_id" :> "string"
      [] n = "apollo_create_call_record" ->
            "logged" :> "boolean" @@ "user_ids" :> "array" @@
            "contact_id" :> "string"
      [] n = "apollo_update_call" ->
            "call_id" :> "string"
      [] n = "apollo_update_contact" ->
            "contact_id" :> "string"
      [] n = "apollo_update_contact_stages" ->
            "contact_ids" :> "array" @@ "contact_stage_id" :> "string"
      [] n = "apollo_update_contact_owners" ->
            "contact_ids" :> "array" @@ "owner_id" :> "string"
      [] n = "apollo_create_deal" ->
            "name" :> "string"
      [] n = "apollo_view_deal" ->
            "opportunity_id" :> "string"
      [] n = "apollo_update_deal" ->
            "opportunity_id" :> "string"
      [] n = "apollo_organisation_enrichment" ->
            "domain" :> "string"
      [] n = "apollo_bulk_organisation_enrichment" ->
            "domains" :> "array"
      [] n = "apollo_organization_job_postings" ->
            "organization_id" :> "string"
      [] n = "apollo_news_articles_search" ->
            "organization_ids" :> "array"
      [] n = "apollo_add_contacts_to_sequence" ->
            "sequence_id" :> "string" @@ "emailer_campaign_id" :> "string" @@
            "contact_ids" :> "array" @@
            "send_email_from_email_account_id" :> "string"
      [] n = "apollo_update_contact_status_in_sequence" ->
            "emailer_campaign_ids" :> "array" @@ "contact_ids" :> "array" @@
            "mode" :> "string"
      [] n = "apollo_check_email_stats" ->
            "email_id" :> "string"
      [] n = "apollo_create_tasks" ->
            "user_id" :> "string" @@ "contact_ids" :> "array" @@
            "priority" :> "string" @@ "due_at" :> "string" @@
            "task_type" :> "string" @@ "status" :> "string"
      [] OTHER -> <<>>

\* --------------------------------------------------- server.py: call_tool
\* how the branch of each tool tests an argument before calling the adapter:
\*   "falsy"   `not x`
\*   "is_none" `x is None`
\*   "list"    `not x or not isinstance(x, list) or len(x) == 0`
\*   "in"      `param in arguments`
\*   "none"    no test
CheckOf(n, a) ==
    CASE n \in {
            "apollo_add_contacts_to_sequence", "apollo_create_tasks",
            "apollo_update_contact_status_in_sequence"} -> "in"
      [] n \in {
            "apollo_bulk_organisation_enrichment",
            "apollo_news_articles_search"} -> "list"
      [] n = "apollo_create_call_record" /\ a = "logged" -> "is_none"
      [] n \in {
            "apollo_create_account"} -> "none"
      [] OTHER -> "falsy"

\* how the branch turns the adapter's return value into the text:
\* "raw" is text=result, "dumps" is text=json.dumps(result, indent=2)
ConvOf(n) ==
    IF n \in {
        "apollo_create_account", "apollo_update_account",
        "apollo_update_account_stage_bulk",
        "apollo_update_account_owner_bulk", "apollo_create_call_record",
        "apollo_update_call", "apollo_create_contact",
        "apollo_update_contact", "apollo_update_contact_stages",
        "apollo_update_contact_owners", "apollo_create_deal",
        "apollo_update_deal"}
    THEN "raw" ELSE "dumps"

\* ------------------------------------------------------------ tools/*.py
\* an adapter: HTTP method, path, whether it calls raise_for_status and
\* tells the three failure classes apart, and what it returns on success
Ad(m, p, checked, ret) == [method |-> m, path |-> p, checked |-> checked, returns |-> ret]

accounts_py(n) ==
    CASE n = "apollo_create_account" ->
            Ad("POST", "/api/v1/accounts", TRUE, "json")
      [] n = "apollo_update_account" ->
            Ad("PUT", "/api/v1/accounts/{account_id}", TRUE, "text")
      [] n = "apollo_search_accounts" ->
            Ad("POST", "/api/v1/accounts/search", TRUE, "text")
      [] n = "apollo_view_account" ->
            Ad("GET", "/api/v1/accounts/{account_id}", FALSE, "text")
      [] n = "apollo_update_account_stage_bulk" ->
            Ad("POST", "/api/v1/accounts/bulk_update", FALSE, "text")
      [] n = "apollo_update_account_owner_bulk" ->
            Ad("POST", "/api/v1/accounts/update_owners", FALSE, "text")
      [] n = "apollo_list_account_stages" ->
            Ad("GET", "/api/v1/account_stages", FALSE, "text")

calls_py(n) ==
    CASE n = "apollo_create_call_record" ->
            Ad("POST", "/api/v1/phone_calls", TRUE, "text")
      [] n = "apollo_search_calls" ->
            Ad("GET", "/api/v1/phone_calls/search", TRUE, "text")
      [] n = "apollo_update_call" ->
            Ad("PUT", "/api/v1/phone_calls/{call_id}", TRUE, "text")

contacts_py(n) ==
    CASE n = "apollo_create_contact" ->
            Ad("POST", "/api/v1/contacts", FALSE, "text")
      [] n = "apollo_update_contact" ->
            Ad("PUT", "/api/v1/contacts/{contact_id}", FALSE, "text")
      [] n = "apollo_search_contacts" ->
            Ad("POST", "/api/v1/contacts/search", FALSE, "text")
      [] n = "apollo_update_contact_stages" ->
            Ad("POST", "/api/v1/contacts/update_stages", FALSE, "text")
      [] n = "apollo_update_contact_owners" ->
            Ad("POST", "/api/v1/contacts/update_owners", FALSE, "text")
      [] n = "apollo_list_contact_stages" ->
            Ad("GET", "/api/v1/contact_stages", FALSE, "text")

deals_py(n) ==
    CASE n = "apollo_create_deal" ->
            Ad("POST", "/api/v1/opportunities", TRUE, "text")
      [] n = "apollo_list_all_deals" ->
            Ad("GET", "/api/v1/opportunities/search", TRUE, "text")
      [] n = "apollo_view_deal" ->
            Ad("GET", "/api/v1/opportunities/{opportunity_id}", TRUE, "text")
      [] n = "apollo_update_deal" ->
            Ad("PATCH", "/api/v1/opportunities/{opportunity_id}", TRUE, "text")
      [] n = "apollo_list_deal_stages" ->
            Ad("GET", "/api/v1/opportunity_stages", TRUE, "text")

enrichment_py(n) ==
    CASE n = "apollo_organisation_enrichment" ->
            Ad("GET", "/api/v1/organizations/enrich", TRUE, "text")
      [] n = "apollo_bulk_organisation_enrichment" ->
            Ad("POST", "/api/v1/organizations/bulk_enrich", TRUE, "text")

miscellaneous_py(n) ==
    CASE n = "apollo_view_api_usage_stats" ->
            Ad("POST", "/api/v1/usage_stats/api_usage_stats", TRUE, "text")
      [] n = "apollo_list_users" ->
            Ad("GET", "/api/v1/users/search", TRUE, "text")
      [] n = "apollo_list_email_accounts" ->
            Ad("GET", "/api/v1/email_accounts", TRUE, "text")
      [] n = "apollo_get_all_lists_and_tags" ->
            Ad("GET", "/api/v1/labels", TRUE, "text")
      [] n = "apollo_list_all_custom_fields" ->
            Ad("GET", "/api/v1/typed_custom_fields", TRUE, "text")

search_py(n) ==
    CASE n = "apollo_organization_job_postings" ->
            Ad("GET", "/api/v1/organizations/{organization_id}/job_postings", TRUE, "text")
      [] n = "apollo_news_articles_search" ->
            Ad("POST", "/api/v1/news_articles/search", TRUE, "text")

sequences_py(n) ==
    CASE n = "apollo_search_sequences" ->
            Ad("POST", "/api/v1/emailer_campaigns/search", TRUE, "text")
      [] n = "apollo_add_contacts_to_sequence" ->
            Ad("POST", "/api/v1/emailer_campaigns/{sequence_id}/add_contact_ids", TRUE, "text")
      [] n = "apollo_update_contact_status_in_sequence" ->
            Ad("POST", "/api/v1/emailer_campaigns/remove_or_stop_contact_ids", TRUE, "text")
      [] n = "apollo_search_outreach_emails" ->
            Ad("GET", "/api/v1/emailer_messages/search", TRUE, "text")
      [] n = "apollo_check_email_stats" ->
            Ad("GET", "/api/v1/emailer_messages/{email_id}/activities", TRUE, "text")

tasks_py(n) ==
    CASE n = "apollo_create_tasks" ->
            Ad("POST", "/api/v1/tasks/bulk_create", TRUE, "text")
      [] n = "apollo_search_tasks" ->
            Ad("POST", "/api/v1/tasks/search", TRUE, "text")

\* tools/__init__.py: the adapter function call_tool binds to a tool name
AdapterOf(n) ==
    CASE n \in {
            "apollo_create_account", "apollo_update_account",
            "apollo_search_accounts", "apollo_view_account",
            "apollo_update_account_stage_bulk",
            "apollo_update_account_owner_bulk", "apollo_list_account_stages"} -> accounts_py(n)
      [] n \in {
            "apollo_create_call_record", "apollo_search_calls",
            "apollo_update_call"} -> calls_py(n)
      [] n \in {
            "apollo_create_contact", "apollo_update_contact",
            "apollo_search_contacts", "apollo_update_contact_stages",
            "apollo_update_contact_owners", "apollo_list_contact_stages"} -> contacts_py(n)
      [] n \in {
            "apollo_create_deal", "apollo_list_all_deals",
            "apollo_view_deal", "apollo_update_deal",
            "apollo_list_deal_stages"} -> deals_py(n)
      [] n \in {
            "apollo_organisation_enrichment",
            "apollo_bulk_organisation_enrichment"} -> enrichment_py(n)
      [] n \in {
            "apollo_view_api_usage_stats", "apollo_list_users",
            "apollo_list_email_accounts", "apollo_get_all_lists_and_tags",
            "apollo_list_all_custom_fields"} -> miscellaneous_py(n)
      [] n \in {
            "apollo_organization_job_postings", "apollo_news_articles_search"} -> search_py(n)
      [] n \in {
            "apollo_search_sequences", "apollo_add_contacts_to_sequence",
            "apollo_update_contact_status_in_sequence",
            "apollo_search_outreach_emails", "apollo_check_email_stats"} -> sequences_py(n)
      [] n \in {
            "apollo_create_tasks", "apollo_search_tasks"} -> tasks_py(n)

\* ------------------------------------- server.py: the branches of call_tool
\* the if/elif chain of call_tool without its last branch
BranchNamesShort == <<
    "apollo_create_account", "apollo_update_account",
    "apollo_search_accounts", "apollo_view_account",
    "apollo_update_account_stage_bulk", "apollo_update_account_owner_bulk",
    "apollo_list_account_stages", "apollo_create_call_record",
    "apollo_search_calls", "apollo_update_call", "apollo_create_contact",
    "apollo_update_contact", "apollo_search_contacts",
    "apollo_update_contact_stages", "apollo_update_contact_owners",
    "apollo_list_contact_stages", "apollo_create_deal",
    "apollo_list_all_deals", "apollo_view_deal", "apollo_update_deal",
    "apollo_list_deal_stages", "apollo_organisation_enrichment",
    "apollo_bulk_organisation_enrichment", "apollo_view_api_usage_stats",
    "apollo_list_users", "apollo_list_email_accounts",
    "apollo_get_all_lists_and_tags", "apollo_list_all_custom_fields",
    "apollo_organization_job_postings", "apollo_news_articles_search",
    "apollo_search_sequences", "apollo_add_contacts_to_sequence",
    "apollo_update_contact_status_in_sequence",
    "apollo_search_outreach_emails", "apollo_check_email_stats",
    "apollo_create_tasks">>

\* the names the branches of the if/elif chain of call_tool compare `name`
\* with, in the order of the chain
BranchNames == <<
    "apollo_create_account", "apollo_update_account",
    "apollo_search_accounts", "apollo_view_account",
    "apollo_update_account_stage_bulk", "apollo_update_account_owner_bulk",
    "apollo_list_account_stages", "apollo_create_call_record",
    "apollo_search_calls", "apollo_update_call", "apollo_create_contact",
    "apollo_update_contact", "apollo_search_contacts",
    "apollo_update_contact_stages", "apollo_update_contact_owners",
    "apollo_list_contact_stages", "apollo_create_deal",
    "apollo_list_all_deals", "apollo_view_deal", "apollo_update_deal",
    "apollo_list_deal_stages", "apollo_organisation_enrichment",
    "apollo_bulk_organisation_enrichment", "apollo_view_api_usage_stats",
    "apollo_list_users", "apollo_list_email_accounts",
    "apollo_get_all_lists_and_tags", "apollo_list_all_custom_fields",
    "apollo_organization_job_postings", "apollo_news_articles_search",
    "apollo_search_sequences", "apollo_add_contacts_to_sequence",
    "apollo_update_contact_status_in_sequence",
    "apollo_search_outreach_emails", "apollo_check_email_stats",
    "apollo_create_tasks", "apollo_search_tasks">>

\* the branches of the chain that match a name
Handles(n) == {i \in 1..Len(BranchNames) : BranchNames[i] = n}

\* the function of tools/*.py the branch for a name awaits
BoundOf(n) ==
    CASE n = "apollo_create_account" ->
            "apollo_create_account"
      [] n = "apollo_update_account" ->
            "apollo_update_account"
      [] n = "apollo_search_accounts" ->
            "apollo_search_accounts"
      [] n = "apollo_view_account" ->
            "apollo_view_account"
      [] n = "apollo_update_account_stage_bulk" ->
            "apollo_update_account_stage_bulk"
      [] n = "apollo_update_account_owner_bulk" ->
            "apollo_update_account_owner_bulk"
      [] n = "apollo_list_account_stages" ->
            "apollo_list_account_stages"
      [] n = "apollo_create_call_record" ->
            "apollo_create_call_record"
      [] n = "apollo_search_calls" ->
            "apollo_search_calls"
      [] n = "apollo_update_call" ->
            "apollo_update_call"
      [] n = "apollo_create_contact" ->
            "apollo_create_contact"
      [] n = "apollo_update_contact" ->
            "apollo_update_contact"
      [] n = "apollo_search_contacts" ->
            "apollo_search_contacts"
      [] n = "apollo_update_contact_stages" ->
            "apollo_update_contact_stages"
      [] n = "apollo_update_contact_owners" ->
            "apollo_update_contact_owners"
      [] n = "apollo_list_contact_stages" ->
            "apollo_list_contact_stages"
      [] n = "apollo_create_deal" ->
            "apollo_create_deal"
      [] n = "apollo_list_all_deals" ->
            "apollo_list_all_deals"
      [] n = "apollo_view_deal" ->
            "apollo_view_deal"
      [] n = "apollo_update_deal" ->
            "apollo_update_deal"
      [] n = "apollo_list_deal_stages" ->
            "apollo_list_deal_stages"
      [] n = "apollo_organisation_enrichment" ->
            "apollo_organisation_enrichment"
      [] n = "apollo_bulk_organisation_enrichment" ->
            "apollo_bulk_organisation_enrichment"
      [] n = "apollo_view_api_usage_stats" ->
            "apollo_view_api_usage_stats"
      [] n = "apollo_list_users" ->
            "apollo_list_users"
      [] n = "apollo_list_email_accounts" ->
            "apollo_list_email_accounts"
      [] n = "apollo_get_all_lists_and_tags" ->
            "apollo_get_all_lists_and_tags"
      [] n = "apollo_list_all_custom_fields" ->
            "apollo_list_all_custom_fields"
      [] n = "apollo_organization_job_postings" ->
            "apollo_organization_job_postings"
      [] n = "apollo_news_articles_search" ->
            "apollo_news_articles_search"
      [] n = "apollo_search_sequences" ->
            "apollo_search_sequences"
      [] n = "apollo_add_contacts_to_sequence" ->
            "apollo_add_contacts_to_sequence"
      [] n = "apollo_update_contact_status_in_sequence" ->
            "apollo_update_contact_status_in_sequence"
      [] n = "apollo_search_outreach_emails" ->
            "apollo_search_outreach_emails"
      [] n = "apollo_check_email_stats" ->
            "apollo_check_email_stats"
      [] n = "apollo_create_tasks" ->
            "apollo_create_tasks"
      [] n = "apollo_search_tasks" ->
            "apollo_search_tasks"

\* the method and path an adapter's docstring documents, for the adapters
\* whose docstring does
Documented == {
    "apollo_create_deal", "apollo_list_all_deals", "apollo_view_deal",
    "apollo_update_deal", "apollo_list_deal_stages",
    "apollo_organisation_enrichment", "apollo_bulk_organisation_enrichment",
    "apollo_view_api_usage_stats", "apollo_list_users",
    "apollo_list_email_accounts", "apollo_get_all_lists_and_tags",
    "apollo_list_all_custom_fields", "apollo_organization_job_postings",
    "apollo_news_articles_search", "apollo_search_sequences",
    "apollo_add_contacts_to_sequence",
    "apollo_update_contact_status_in_sequence"}

DocOf(n) ==
    CASE n = "apollo_create_deal" ->
            [method |-> "POST", path |-> "/api/v1/opportunities"]
      [] n = "apollo_list_all_deals" ->
            [method |-> "GET", path |-> "/api/v1/opportunities/search"]
      [] n = "apollo_view_deal" ->
            [method |-> "GET", path |-> "/api/v1/opportunities/{opportunity_id}"]
      [] n = "apollo_update_deal" ->
            [method |-> "PATCH", path |-> "/api/v1/opportunities/{opportunity_id}"]
      [] n = "apollo_list_deal_stages" ->
            [method |-> "GET", path |-> "/api/v1/opportunity_stages"]
      [] n = "apollo_organisation_enrichment" ->
            [method |-> "GET", path |-> "/api/v1/organizations/enrich"]
      [] n = "apollo_bulk_organisation_enrichment" ->
            [method |-> "POST", path |-> "/api/v1/organizations/bulk_enrich"]
      [] n = "apollo_view_api_usage_stats" ->
            [method |-> "POST", path |-> "/api/v1/usage_stats/api_usage_stats"]
      [] n = "apollo_list_users" ->
            [method |-> "GET", path |-> "/api/v1/users/search"]
      [] n = "apollo_list_email_accounts" ->
            [method |-> "GET", path |-> "/api/v1/email_accounts"]
      [] n = "apollo_get_all_lists_and_tags" ->
            [method |-> "GET", path |-> "/api/v1/labels"]
      [] n = "apollo_list_all_custom_fields" ->
            [method |-> "GET", path |-> "/api/v1/typed_custom_fields"]
      [] n = "apollo_organization_job_postings" ->
            [method |-> "GET", path |-> "/api/v1/organizations/{organization_id}/job_postings"]
      [] n = "apollo_news_articles_search" ->
            [method |-> "POST", path |-> "/api/v1/news_articles/search"]
      [] n = "apollo_search_sequences" ->
            [method |-> "POST", path |-> "/api/v1/emailer_campaigns/search"]
      [] n = "apollo_add_contacts_to_sequence" ->
            [method |-> "POST", path |-> "/api/v1/emailer_campaigns/{sequence_id}/add_contact_ids"]
      [] n = "apollo_update_contact_status_in_sequence" ->
            [method |-> "POST", path |-> "/api/v1/emailer_campaigns/remove_or_stop_contact_ids"]


\* ------------------------------------------------- argument values (shapes)
\* what an argument can be in the arguments mapping, by its schema type;
\* "absent" is a key that is not in the mapping, "null" a key mapped to None
ValuesOf(type) ==
    CASE type = "string" -> <<"absent", "null", "empty_str", "str">>
      [] type = "array" -> <<"absent", "null", "empty_list", "list">>
      [] type = "boolean" -> <<"absent", "null", "false", "true">>

\* the arguments mappings of an invocation of tool n
ArgMaps(n) ==
    LET T == ArgType(n) IN
    {[a \in DOMAIN T |-> ValuesOf(T[a])[g[a]]] : g \in [DOMAIN T -> 1..4]}

\* arguments.get(a): None for an absent key and for a null value
IsNone(v) == v \in {"absent", "null"}

\* Python truthiness of a value
NotTruthy(v) == v \in {"absent", "null", "empty_str", "empty_list", "false"}

\* a value of the type the schema asks for, and not empty
Valid(v) == v \in {"str", "list", "false", "true"}

\* tool names no branch of call_tool matches
UnknownNames == {"apollo_delete_account", ""}

\* the test of an argument fails and the branch returns its message
MissingAllFalsy(kind, v) ==
    CASE kind = "none" -> FALSE
      [] OTHER -> NotTruthy(v)

\* the branches with `param in arguments` do not test at all
MissingWithoutInTest(kind, v) ==
    CASE kind = "falsy" -> NotTruthy(v)
      [] kind = "is_none" -> IsNone(v)
      [] kind = "list" -> NotTruthy(v) \/ v \notin {"empty_list", "list"}
      [] kind = "in" -> FALSE
      [] kind = "none" -> FALSE

Missing(kind, v) ==
    CASE kind = "falsy" -> NotTruthy(v)
      [] kind = "is_none" -> IsNone(v)
      [] kind = "list" -> NotTruthy(v) \/ v \notin {"empty_list", "list"}
      [] kind = "in" -> v = "absent"
      [] kind = "none" -> FALSE

\* one message for every branch
MessageOfGeneric(n) == "Missing required parameters."

\* the text of the message a branch returns when its test fails
MessageOf(n) ==
    CASE n \in {"apollo_update_account", "apollo_view_account"} ->
            "Missing required parameter: account_id."
      [] n = "apollo_update_account_stage_bulk" ->
            "Missing required parameters: account_ids, account_stage_id."
      [] n = "apollo_update_account_owner_bulk" ->
            "Missing required parameters: account_ids, owner_id."
      [] n = "apollo_create_call_record" ->
            "Missing required parameters: logged, user_ids, contact_id."
      [] n = "apollo_update_call" ->
            "Missing required parameter: call_id."
      [] n = "apollo_update_contact" ->
            "Missing required parameter: contact_id."
      [] n = "apollo_update_contact_stages" ->
            "Missing required parameters: contact_ids, contact_stage_id."
      [] n = "apollo_update_contact_owners" ->
            "Missing required parameters: contact_ids, owner_id."
      [] n = "apollo_create_deal" ->
            "Missing required parameter: name."
      [] n \in {"apollo_view_deal", "apollo_update_deal"} ->
            "Missing required parameter: opportunity_id."
      [] n = "apollo_organisation_enrichment" ->
            "Missing required parameter: domain."
      [] n = "apollo_bulk_organisation_enrichment" ->
            "Missing or invalid required parameter: domains."
      [] n = "apollo_organization_job_postings" ->
            "Missing required parameter: organization_id."
      [] n = "apollo_news_articles_search" ->
            "Missing or invalid required parameter: organization_ids."
      [] n = "apollo_add_contacts_to_sequence" ->
            "Missing required parameters. Required: sequence_id, emailer_campaign_id, contact_ids, send_email_from_email_account_id."
      [] n = "apollo_update_contact_status_in_sequence" ->
            "Missing required parameters. Required: emailer_campaign_ids, contact_ids, mode."
      [] n = "apollo_check_email_stats" ->
            "Missing required parameter: email_id."
      [] n = "apollo_create_tasks" ->
            "Missing required parameters. Required: user_id, contact_ids, priority, due_at, task_type, status."

Rejects(n, args) == \E a \in DOMAIN args : Missing(CheckOf(n, a), args[a])

\* no adapter returns before its upstream call
PrecheckNever(n, args) == FALSE

\* accounts.py 36-37: apollo_create_account returns an error without a call
\* when name and domain are both None
PrecheckFails(n, args) ==
    /\ n = "apollo_create_account"
    /\ IsNone(args["name"]) /\ IsNone(args["domain"])

\* ---------------------------------------------------- values of the results
Py(kind, what) == [py |-> kind, what |-> what]
NoValue == Py("pending", "pending")
NoToken == [ok |-> FALSE, token |-> Never]

\* types.TextContent(type="text", text=...)
TextContent(form, of) == [type |-> "text", form |-> form, of |-> of]
PyList(items) == [py |-> "list", items |-> items]
PyNone == [py |-> "None", items |-> <<>>]
Pending == [py |-> "pending", items |-> <<>>]

\* outcomes of the awaited upstream call
Outcomes == {"2xx", "non2xx", "transport", "unexpected"}

\* what the adapter returns for an outcome of its upstream call
AdapterReturn(n, o) ==
    LET ad == AdapterOf(n) IN
    IF ad.checked
    THEN CASE o = "2xx" -> Py(IF ad.returns = "json" THEN "json" ELSE "str", "body")
           [] o = "non2xx" -> Py("dict", "HTTP error")
           [] o = "transport" -> Py("dict", "Request failed")
           [] o = "unexpected" -> Py("dict", "Unexpected error")
    ELSE CASE o = "2xx" -> Py("str", "body")
           [] o = "non2xx" -> Py("str", "error body")
           [] o = "transport" -> Py("dict", "exception text")
           [] o = "unexpected" -> Py("dict", "exception text")

\* the try block of a branch: build the TextContent, or, when that raises
\* (text=result with a result that is no str), the "Error: " text of the
\* except clause
Convert(conv, ret) ==
    IF conv = "dumps" THEN PyList(<<TextContent("json.dumps", ret)>>)
    ELSE IF ret.py = "str" THEN PyList(<<TextContent("verbatim", ret)>>)
    ELSE PyList(<<TextContent("Error: ", Py("exception", "ValidationError"))>>)


\* ------------------------------------------- tools/*.py, request building
\* one entry of the params/data dict an adapter hands to httpx: the tool
\* argument it carries, the upstream key (name and bracket suffix), the
\* schema type of the argument, what the branch passes when the key is
\* absent from the arguments mapping, the guard of the entry ("always" in
\* the dict literal, "truthy" under `if x:`) and the conversion applied
P(arg, key, suffix, type, dflt, guard, xform) ==
    [arg |-> arg, key |-> key, suffix |-> suffix, type |-> type,
     dflt |-> dflt, guard |-> guard, xform |-> xform]

accounts_py_params(n) ==
    CASE n = "apollo_create_account" ->
            <<P("name", "name", "", "string", "null", "always", "none"),
              P("domain", "domain", "", "string", "null", "always", "none"),
              P("owner_id", "owner_id", "", "string", "null", "always", "none"),
              P("account_stage_id", "account_stage_id", "", "string", "null", "always", "none"),
              P("phone", "phone", "", "string", "null", "always", "none"),
              P("raw_address", "raw_address", "", "string", "null", "always", "none")>>
      [] n = "apollo_update_account" ->
            <<P("name", "name", "", "string", "null", "always", "none"),
              P("domain", "domain", "", "string", "null", "always", "none"),
              P("owner_id", "owner_id", "", "string", "null", "always", "none"),
              P("account_stage_id", "account_stage_id", "", "string", "null", "always", "none"),
              P("raw_address", "raw_address", "", "string", "null", "always", "none"),
              P("phone", "phone", "", "string", "null", "always", "none")>>
      [] n = "apollo_search_accounts" ->
            <<P("q_organization_name", "q_organization_name", "", "string", "null", "always", "none"),
              P("account_stage_ids", "account_stage_ids", "[]", "array", "null", "always", "none"),
              P("sort_by_field", "sort_by_field", "", "string", "null", "always", "none"),
              P("sort_ascending", "sort_ascending", "", "boolean", "null", "always", "none"),
              P("page", "page", "", "integer", "null", "always", "none"),
              P("per_page", "per_page", "", "integer", "null", "always", "none")>>
      [] n = "apollo_view_account" ->
            <<>>
      [] n = "apollo_update_account_stage_bulk" ->
            <<P("account_ids", "account_ids", "[]", "array", "null", "always", "none"),
              P("account_stage_id", "account_stage_id", "", "string", "null", "always", "none")>>
      [] n = "apollo_update_account_owner_bulk" ->
            <<P("account_ids", "account_ids", "[]", "array", "null", "always", "none"),
              P("owner_id", "owner_id", "", "string", "null", "always", "none")>>
      [] n = "apollo_list_account_stages" ->
            <<>>

calls_py_params(n) ==
    CASE n = "apollo_create_call_record" ->
            <<P("logged", "logged", "", "boolean", "null", "always", "str_lower"),
              P("user_ids", "user_id", "[]", "array", "null", "always", "none"),
              P("contact_id", "contact_id", "", "string", "null", "always", "none"),
              P("account_id", "account_id", "", "string", "null", "always", "none"),
              P("to_number", "to_number", "", "string", "null", "always", "none"),
              P("from_number", "from_number", "", "string", "null", "always", "none"),
              P("status", "status", "", "string", "null", "always", "none"),
              P("start_time", "start_time", "", "string", "null", "always", "none"),
              P("end_time", "end_time", "", "string", "null", "always", "none"),
              P("duration", "duration", "", "integer", "null", "always", "none"),
              P("phone_call_purpose_id", "phone_call_purpose_id", "", "string", "null", "always", "none"),
              P("phone_call_outcome_id", "phone_call_outcome_id", "", "string", "null", "always", "none"),
              P("note", "note", "", "string", "null", "always", "none")>>
      [] n = "apollo_search_calls" ->
            <<P("date_range_max", "date_range", "[max]", "string", "null", "always", "none"),
              P("date_range_min", "date_range", "[min]", "string", "null", "always", "none"),
              P("duration_max", "duration", "[max]", "integer", "null", "always", "none"),
              P("duration_min", "duration", "[min]", "integer", "null", "always", "none"),
              P("inbound", "inbound", "", "string", "null", "always", "none"),
              P("user_ids", "user_ids", "[]", "array", "null", "always", "none"),
              P("contact_label_ids", "contact_label_ids", "[]", "array", "null", "always", "none"),
              P("phone_call_purpose_ids", "phone_call_purpose_ids", "[]", "array", "null", "always", "none"),
              P("phone_call_outcome_ids", "phone_call_outcome_ids", "[]", "array", "null", "always", "none"),
              P("q_keywords", "q_keywords", "", "string", "null", "always", "none"),
              P("page", "page", "", "integer", "null", "always", "none"),
              P("per_page", "per_page", "", "integer", "null", "always", "none")>>
      [] n = "apollo_update_call" ->
            <<P("logged", "logged", "", "boolean", "null", "always", "none"),
              P("user_ids", "user_id", "[]", "array", "null", "always", "none"),
              P("contact_id", "contact_id", "", "string", "null", "always", "none"),
              P("account_id", "account_id", "", "string", "null", "always", "none"),
              P("to_number", "to_number", "", "string", "null", "always", "none"),
              P("from_number", "from_number", "", "string", "null", "always", "none"),
              P("status", "status", "", "string", "null", "always", "none"),
              P("start_time", "start_time", "", "string", "null", "always", "none"),
              P("end_time", "end_time", "", "string", "null", "always", "none"),
              P("duration", "duration", "", "integer", "null", "always", "none"),
              P("phone_call_purpose_id", "phone_call_purpose_id", "", "string", "null", "always", "none"),
              P("phone_call_outcome_id", "phone_call_outcome_id", "", "string", "null", "always", "none"),
              P("note", "note", "", "string", "null", "always", "none")>>

contacts_py_params(n) ==
    CASE n = "apollo_create_contact" ->
            <<P("first_name", "first_name", "", "string", "null", "always", "none"),
              P("last_name", "last_name", "", "string", "null", "always", "none"),
              P("organization_name", "organization_name", "", "string", "null", "always", "none"),
              P("title", "title", "", "string", "null", "always", "none"),
              P("account_id", "account_id", "", "string", "null", "always", "none"),
              P("email", "email", "", "string", "null", "always", "none"),
              P("website_url", "website_url", "", "string", "null", "always", "none"),
              P("label_names", "label_names", "[]", "array", "null", "always", "none"),
              P("contact_stage_id", "contact_stage_id", "", "string", "null", "always", "none"),
              P("present_raw_address", "present_raw_address", "", "string", "null", "always", "none"),
              P("direct_phone", "direct_phone", "", "string", "null", "always", "none"),
              P("corporate_phone", "corporate_phone", "", "string", "null", "always", "none"),
              P("mobile_phone", "mobile_phone", "", "string", "null", "always", "none"),
              P("home_phone", "home_phone", "", "string", "null", "always", "none"),
              P("other_phone", "other_phone", "", "string", "null", "always", "none")>>
      [] n = "apollo_update_contact" ->
            <<P("first_name", "first_name", "", "string", "null", "always", "none"),
              P("last_name", "last_name", "", "string", "null", "always", "none"),
              P("organization_name", "organization_name", "", "string", "null", "always", "none"),
              P("title", "title", "", "string", "null", "always", "none"),
              P("account_id", "account_id", "", "string", "null", "always", "none"),
              P("email", "email", "", "string", "null", "always", "none"),
              P("website_url", "website_url", "", "string", "null", "always", "none"),
              P("label_names", "label_names", "[]", "array", "null", "always", "none"),
              P("contact_stage_id", "contact_stage_id", "", "string", "null", "always", "none"),
              P("present_raw_address", "present_raw_address", "", "string", "null", "always", "none"),
              P("direct_phone", "direct_phone", "", "string", "null", "always", "none"),
              P("corporate_phone", "corporate_phone", "", "string", "null", "always", "none"),
              P("mobile_phone", "mobile_phone", "", "string", "null", "always", "none"),
              P("home_phone", "home_phone", "", "string", "null", "always", "none"),
              P("other_phone", "other_phone", "", "string", "null", "always", "none")>>
      [] n = "apollo_search_contacts" ->
            <<P("q_keywords", "q_keywords", "", "string", "null", "always", "none"),
              P("contact_stage_ids", "contact_stage_ids", "[]", "array", "null", "always", "none"),
              P("sort_by_field", "sort_by_field", "", "string", "null", "always", "none"),
              P("sort_ascending", "sort_ascending", "", "boolean", "null", "always", "none"),
              P("per_page", "per_page", "", "integer", "null", "always", "none"),
              P("page", "page", "", "integer", "null", "always", "none")>>
      [] n = "apollo_update_contact_stages" ->
            <<P("contact_ids", "contact_ids", "[]", "array", "null", "always", "none"),
              P("contact_stage_id", "contact_stage_id", "", "string", "null", "always", "none")>>
      [] n = "apollo_update_contact_owners" ->
            <<P("contact_ids", "contact_ids", "[]", "array", "null", "always", "none"),
              P("owner_id", "owner_id", "", "string", "null", "always", "none")>>
      [] n = "apollo_list_contact_stages" ->
            <<>>

deals_py_params(n) ==
    CASE n = "apollo_create_deal" ->
            <<P("name", "name", "", "string", "null", "always", "none"),
              P("owner_id", "owner_id", "", "string", "null", "always", "none"),
              P("account_id", "account_id", "", "string", "null", "always", "none"),
              P("amount", "amount", "", "string", "null", "always", "none"),
              P("opportunity_stage_id", "opportunity_stage_id", "", "string", "null", "always", "none"),
              P("closed_date", "closed_date", "", "string", "null", "always", "none")>>
      [] n = "apollo_list_all_deals" ->
            <<P("sort_by_field", "sort_by_field", "", "string", "null", "always", "none"),
              P("page", "page", "", "integer", "null", "always", "none"),
              P("per_page", "per_page", "", "integer", "null", "always", "none")>>
      [] n = "apollo_view_deal" ->
            <<>>
      [] n = "apollo_update_deal" ->
            <<P("owner_id", "owner_id", "", "string", "null", "always", "none"),
              P("name", "name", "", "string", "null", "always", "none"),
              P("amount", "amount", "", "string", "null", "always", "none"),
              P("opportunity_stage_id", "opportunity_stage_id", "", "string", "null", "always", "none"),
              P("closed_date", "closed_date", "", "string", "null", "always", "none"),
              P("is_closed", "is_closed", "", "boolean", "null", "always", "none"),
              P("is_won", "is_won", "", "boolean", "null", "always", "none"),
              P("source", "source", "", "string", "null", "always", "none"),
              P("account_id", "account_id", "", "string", "null", "always", "none")>>
      [] n = "apollo_list_deal_stages" ->
            <<>>

enrichment_py_params(n) ==
    CASE n = "apollo_organisation_enrichment" ->
            <<P("domain", "domain", "", "string", "null", "always", "strip_www")>>
      [] n = "apollo_bulk_organisation_enrichment" ->
            <<P("domains", "domains", "[]", "array", "null", "always", "strip_www")>>

miscellaneous_py_params(n) ==
    CASE n = "apollo_view_api_usage_stats" ->
            <<>>
      [] n = "apollo_list_users" ->
            <<>>
      [] n = "apollo_list_email_accounts" ->
            <<>>
      [] n = "apollo_get_all_lists_and_tags" ->
            <<>>
      [] n = "apollo_list_all_custom_fields" ->
            <<>>

search_py_params(n) ==
    CASE n = "apollo_organization_job_postings" ->
            <<P("page", "page", "", "integer", "null", "always", "none"),
              P("per_page", "per_page", "", "integer", "null", "always", "none")>>
      [] n = "apollo_news_articles_search" ->
            <<P("organization_ids", "organization_ids", "[]", "array", "null", "always", "none"),
              P("categories", "categories", "[]", "array", "null", "always", "none"),
              P("published_at_min", "published_at", "[min]", "string", "null", "always", "none"),
              P("published_at_max", "published_at", "[max]", "string", "null", "always", "none"),
              P("page", "page", "", "integer", "null", "always", "none"),
              P("per_page", "per_page", "", "integer", "null", "always", "none")>>

sequences_py_params(n) ==
    CASE n = "apollo_search_sequences" ->
            <<P("q_name", "q_name", "", "string", "null", "always", "none"),
              P("page", "page", "", "integer", "null", "always", "none"),
              P("per_page", "per_page", "", "integer", "null", "always", "none")>>
      [] n = "apollo_add_contacts_to_sequence" ->
            <<P("emailer_campaign_id", "emailer_campaign_id", "", "string", "null", "always", "none"),
              P("contact_ids", "contact_ids", "[]", "array", "null", "always", "none"),
              P("send_email_from_email_account_id", "send_email_from_email_account_id", "", "string", "null", "always", "none"),
              P("sequence_no_email", "sequence_no_email", "", "boolean", "false", "always", "none"),
              P("sequence_unverified_email", "sequence_unverified_email", "", "boolean", "false", "always", "none"),
              P("sequence_job_change", "sequence_job_change", "", "boolean", "false", "always", "none"),
              P("sequence_active_in_other_campaigns", "sequence_active_in_other_campaigns", "", "boolean", "false", "always", "none"),
              P("sequence_finished_in_other_campaigns", "sequence_finished_in_other_campaigns", "", "boolean", "false", "always", "none"),
              P("user_id", "user_id", "", "string", "null", "truthy", "none")>>
      [] n = "apollo_update_contact_status_in_sequence" ->
            <<P("emailer_campaign_ids", "emailer_campaign_ids", "[]", "array", "null", "always", "none"),
              P("contact_ids", "contact_ids", "[]", "array", "null", "always", "none"),
              P("mode", "mode", "", "string", "null", "always", "none")>>
      [] n = "apollo_search_outreach_emails" ->
            <<P("emailer_message_stats", "emailer_message_stats", "[]", "array", "null", "always", "none"),
              P("emailer_message_reply_classes", "emailer_message_reply_classes", "[]", "array", "null", "always", "none"),
              P("user_ids", "user_ids", "[]", "array", "null", "always", "none"),
              P("email_account_id_and_aliases", "email_account_id_and_aliases", "", "string", "null", "always", "none"),
              P("emailer_campaign_ids", "emailer_campaign_ids", "[]", "array", "null", "always", "none"),
              P("not_emailer_campaign_ids", "not_emailer_campaign_ids", "[]", "array", "null", "always", "none"),
              P("emailer_message_date_range_mode", "emailer_message_date_range_mode", "", "string", "null", "always", "none"),
              P("emailerMessageDateRange_max", "emailerMessageDateRange", "[max]", "string", "null", "always", "none"),
              P("emailerMessageDateRange_min", "emailerMessageDateRange", "[min]", "string", "null", "always", "none"),
              P("not_sent_reason_cds", "not_sent_reason_cds", "[]", "array", "null", "always", "none"),
              P("q_keywords", "q_keywords", "", "string", "null", "always", "none"),
              P("page", "page", "", "integer", "null", "always", "none"),
              P("per_page", "per_page", "", "integer", "null", "always", "none")>>
      [] n = "apollo_check_email_stats" ->
            <<>>

tasks_py_params(n) ==
    CASE n = "apollo_create_tasks" ->
            <<P("user_id", "user_id", "", "string", "null", "always", "none"),
              P("contact_ids", "contact_ids", "[]", "array", "null", "always", "none"),
              P("priority", "priority", "", "string", "null", "always", "none"),
              P("due_at", "due_at", "", "string", "null", "always", "none"),
              P("task_type", "type", "", "string", "null", "always", "none"),
              P("status", "status", "", "string", "null", "always", "none"),
              P("note", "note", "", "string", "null", "truthy", "none")>>
      [] n = "apollo_search_tasks" ->
            <<P("sort_by_field", "sort_by_field", "", "string", "null", "always", "none"),
              P("page", "page", "", "integer", "null", "always", "none"),
              P("per_page", "per_page", "", "integer", "null", "always", "none"),
              P("open_factor_names", "open_factor_names", "[]", "array", "null", "truthy", "none")>>

\* the dict entries of the adapter of tool n, in the order of the dict
ParamsOf(n) ==
    CASE n \in {
            "apollo_create_account",
            "apollo_update_account",
            "apollo_search_accounts",
            "apollo_view_account",
            "apollo_update_account_stage_bulk",
            "apollo_update_account_owner_bulk",
            "apollo_list_account_stages"} -> accounts_py_params(n)
      [] n \in {
            "apollo_create_call_record",
            "apollo_search_calls",
            "apollo_update_call"} -> calls_py_params(n)
      [] n \in {
            "apollo_create_contact",
            "apollo_update_contact",
            "apollo_search_contacts",
            "apollo_update_contact_stages",
            "apollo_update_contact_owners",
            "apollo_list_contact_stages"} -> contacts_py_params(n)
      [] n \in {
            "apollo_create_deal",
            "apollo_list_all_deals",
            "apollo_view_deal",
            "apollo_update_deal",
            "apollo_list_deal_stages"} -> deals_py_params(n)
      [] n \in {
            "apollo_organisation_enrichment",
            "apollo_bulk_organisation_enrichment"} -> enrichment_py_params(n)
      [] n \in {
            "apollo_view_api_usage_stats",
            "apollo_list_users",
            "apollo_list_email_accounts",
            "apollo_get_all_lists_and_tags",
            "apollo_list_all_custom_fields"} -> miscellaneous_py_params(n)
      [] n \in {
            "apollo_organization_job_postings",
            "apollo_news_articles_search"} -> search_py_params(n)
      [] n \in {
            "apollo_search_sequences",
            "apollo_add_contacts_to_sequence",
            "apollo_update_contact_status_in_sequence",
            "apollo_search_outreach_emails",
            "apollo_check_email_stats"} -> sequences_py_params(n)
      [] n \in {
            "apollo_create_tasks",
            "apollo_search_tasks"} -> tasks_py_params(n)

\* how the dict goes to httpx: json=data (request body) or params=params
\* (query string)
CarrierOf(n) == IF n \in {"apollo_create_account", "apollo_update_account"} THEN "json" ELSE "params"


\* ------------------------------------------------ values of list arguments
\* a string is the sequence of its characters
www_acme_io == <<"w", "w", "w", ".", "a", "c", "m", "e", ".", "i", "o">>
foo_com == <<"f", "o", "o", ".", "c", "o", "m">>
www == <<"w", "w", "w">>
Strings == {www_acme_io, foo_com, www}

\* a list element that is no str: the integer 123, a value with no characters
\* to split
int_123 == <<"<int 123>">>

\* what an element of a list argument can be (the dispatcher tests
\* isinstance(x, list) and the length at most, never the elements)
Items == Strings \cup {int_123}

\* longest list an invocation gives for a list-valued argument
MaxList == 2

\* the non-empty lists
ListValues == UNION {[1..k -> Items] : k \in 1..MaxList}

\* the list the invocations of SpecDispatch give
OneList == <<foo_com>>

\* str.split("."): the pieces of s between the dots
RECURSIVE split(_)
split(s) ==
    LET dots == {i \in 1..Len(s) : s[i] = "."} IN
    IF dots = {} THEN <<s>>
    ELSE LET i == CHOOSE j \in dots : \A k \in dots : j <= k IN
         <<SubSeq(s, 1, i - 1)>> \o split(SubSeq(s, i + 1, Len(s)))

\* ".".join(parts)
RECURSIVE join(_)
join(parts) ==
    IF parts = <<>> THEN <<>>
    ELSE IF Len(parts) = 1 THEN parts[1]
    ELSE parts[1] \o <<".">> \o join(Tail(parts))

\* enrichment.py 60-65: parts = d.split("."); if parts[0] == "www" the
\* domain becomes ".".join(parts[1:])
remove_www(d) ==
    LET parts == split(d) IN
    IF parts[1] = www THEN join(Tail(parts)) ELSE d

\* ----------------------------------------------------- building the request
\* no optional argument in the arguments mapping
NoOpt == [arg |-> "<none>", val |-> "absent"]

\* the arguments of tool n the schema does not require and the adapter
\* puts in its dict
OptionalOf(n) ==
    {ParamsOf(n)[i].arg : i \in 1..Len(ParamsOf(n))} \ DOMAIN ArgType(n)

\* an invocation holds at most one optional argument, null or with a value
OptChoices(n) ==
    {NoOpt} \cup [arg : OptionalOf(n), val : {"null", "given"}]

\* the shape of a given value of a schema type
GivenShape(type) ==
    CASE type = "array" -> "list"
      [] type = "boolean" -> "true"
      [] OTHER -> "str"

\* what the arguments mapping holds for the argument of dict entry p
ArgShape(args, opt, p) ==
    IF p.arg \in DOMAIN args THEN args[p.arg]
    ELSE IF opt.arg = p.arg
         THEN IF opt.val = "given" THEN GivenShape(p.type) ELSE opt.val
         ELSE "absent"

\* some argument of the invocation is a non-empty list
HoldsList(n, args, opt) ==
    \/ \E a \in DOMAIN args : args[a] = "list"
    \/ \E i \in 1..Len(ParamsOf(n)) :
            ArgShape(args, opt, ParamsOf(n)[i]) = "list"

\* arguments.get(k) / arguments.get(k, False) / arguments[k]: what the
\* branch passes to the adapter
Passed(p, v) == IF v = "absent" THEN p.dflt ELSE v

\* one key=value of the request: the argument it came from, the key, how
\* the value is sent ("item": one element of a list, "value": a scalar,
\* "None": the adapter put None in the dict, which httpx sends as an empty
\* value in the query and as null in a JSON body, "joined": all the
\* elements of a list in one comma-joined string) and the element sent
Entry(p, sent, item) ==
    [arg |-> p.arg, key |-> p.key, suffix |-> p.suffix, sent |-> sent,
     item |-> item]

\* a list under one key as a single comma-joined string
EntriesJoined(p, v, list) ==
    IF p.guard = "truthy" /\ NotTruthy(v) THEN <<>>
    ELSE CASE v = "list" -> <<Entry(p, "joined", <<>>)>>
           [] v = "empty_list" -> <<>>
           [] v = "null" -> <<Entry(p, "None", <<>>)>>
           [] OTHER -> <<Entry(p, "value", <<>>)>>

\* the entries of the request that dict entry p gives for the passed value
\* v: nothing under a failed `if x:` guard, one entry per element of a list
\* in list order, one entry for a scalar or for None
Entries(p, v, list) ==
    IF p.guard = "truthy" /\ NotTruthy(v) THEN <<>>
    ELSE CASE v = "list" ->
                [i \in 1..Len(list) |->
                    Entry(p, "item", IF p.xform = "strip_www"
                                     THEN remove_www(list[i]) ELSE list[i])]
           [] v = "empty_list" -> <<>>
           [] v = "null" -> <<Entry(p, "None", <<>>)>>
           [] OTHER -> <<Entry(p, "value", <<>>)>>

\* the entries of the first k dict entries of the adapter of tool n
RECURSIVE RequestUpTo(_, _, _, _, _)
RequestUpTo(n, args, opt, list, k) ==
    IF k = 0 THEN <<>>
    ELSE LET p == ParamsOf(n)[k] IN
         RequestUpTo(n, args, opt, list, k - 1)
            \o Entries(p, Passed(p, ArgShape(args, opt, p)), list)

\* the query parameters or JSON members of the upstream request
Request(n, args, opt, list) ==
    RequestUpTo(n, args, opt, list, Len(ParamsOf(n)))


TInit ==
    /\ auth_token_context = [c \in Ctx |-> MISSING]
    /\ hpc = [c \in Ctx |-> "idle"]
    /\ htransport = [c \in Ctx |-> "sse"]
    /\ hhdr = [c \in Ctx |-> NoHeader]
    /\ htoken = [c \in Ctx |-> MISSING]
    /\ inv = [c \in Ctx |-> NoCall]
    /\ stale = [c \in Ctx |-> {}]
    /\ scopeBefore = [c \in Ctx |-> MISSING]
    /\ lastExit = "none"

\* the application has started and is serving
LInit ==
    /\ lifecycle = "Running"
    /\ run_loop = "started"
    /\ shutdowns = 0
    /\ hpost = NoPost

DInit ==
    /\ dphase = "Idle"
    /\ dname = ""
    /\ dargs = <<>>
    /\ dscope = Never
    /\ dtoken = NoToken
    /\ dadapter = NoValue
    /\ dresult = Pending
    /\ dcalls = <<>>
    /\ dopt = NoOpt
    /\ dlist = <<>>
    /\ doutcome = "none"

Init ==
    /\ env \in {NoEnv, EnvKey}
    /\ TInit
    /\ DInit
    /\ LInit

Next ==
    \/ \E c \in Ctx, h \in SseHeaders : handle_sse(c, h)
    \/ \E c \in Ctx, h \in HttpHeaders : handle_streamable_http(c, h)
    \/ \E c \in Ctx : handle_streamable_http_decode_error(c)
    \/ \E c \in Ctx : tool_call_start(c)
    \/ \E c \in Ctx : tool_call_return(c)
    \/ \E c \in Ctx : tool_call_throw(c)
    \/ \E c \in Ctx : handler_return(c)
    \/ \E c \in Ctx : handler_exception(c)
    \/ \E c \in Ctx : handler_cancel(c)

Spec == Init /\ [][Next]_vars

\* ------------------------------------------------ one call_tool invocation
Terminal == {"Rejected", "Completed", "NoBranch"}

\* the transport hands an invocation to call_tool: any tool name, any
\* arguments mapping
Invoke ==
    /\ dphase = "Idle"
    /\ \E n \in Registry \cup UnknownNames : \E args \in ArgMaps(n) :
        /\ dname' = n
        /\ dargs' = args
        /\ dopt' = NoOpt
        /\ dlist' = IF n \in Registry /\ HoldsList(n, args, NoOpt)
                    THEN OneList ELSE <<>>
    /\ dphase' = "Received"
    /\ UNCHANGED <<env, lvars, tvars, dscope, dtoken, dadapter, dresult, dcalls,
                   doutcome>>

\* no branch of the if/elif chain matches the name: the function ends
\* without a return statement
call_tool_no_branch ==
    /\ dphase = "Received"
    /\ Handles(dname) = {}
    /\ dphase' = "NoBranch"
    /\ dresult' = PyNone
    /\ UNCHANGED <<env, lvars, tvars, dname, dargs, dscope, dtoken, dadapter, dcalls,
                   dopt, dlist, doutcome>>

\* the branch's test of the required arguments fails
call_tool_reject ==
    /\ dphase = "Received"
    /\ Handles(dname) # {}
    /\ Rejects(dname, dargs)
    /\ dphase' = "Rejected"
    /\ dresult' = PyList(<<TextContent("verbatim", Py("str", MessageOf(dname)))>>)
    /\ UNCHANGED <<env, lvars, tvars, dname, dargs, dscope, dtoken, dadapter, dcalls,
                   dopt, dlist, doutcome>>

\* the adapter is called whatever the test of the branch says
call_tool_accept_unchecked ==
    /\ dphase = "Received"
    /\ Handles(dname) # {}
    /\ dphase' = "Validated"
    /\ UNCHANGED <<env, lvars, tvars, dname, dargs, dscope, dtoken, dadapter, dresult,
                   dcalls, dopt, dlist, doutcome>>

\* the test passes (or the branch has none) and the adapter is called
call_tool_accept ==
    /\ dphase = "Received"
    /\ Handles(dname) # {}
    /\ ~Rejects(dname, dargs)
    /\ dphase' = "Validated"
    /\ UNCHANGED <<env, lvars, tvars, dname, dargs, dscope, dtoken, dadapter, dresult,
                   dcalls, dopt, dlist, doutcome>>

\* enrichment.py 60-61: `for d in domains: parts = d.split(".")` stands
\* before the try block; an element that is no str has no split and the
\* AttributeError leaves the adapter
AdapterRaises(n, args, list) ==
    /\ n = "apollo_bulk_organisation_enrichment"
    /\ args["domains"] = "list"
    /\ \E i \in 1..Len(list) : list[i] \notin Strings

\* the adapter returns before any upstream call
adapter_precheck_fail ==
    /\ dphase = "Validated"
    /\ PrecheckFails(dname, dargs)
    /\ dadapter' = Py("dict", "precheck")
    /\ dresult' = Convert(ConvOf(dname), dadapter')
    /\ dphase' = "Completed"
    /\ UNCHANGED <<env, lvars, tvars, dname, dargs, dscope, dtoken, dcalls, dopt, dlist,
                   doutcome>>

\* the adapter raises while it prepares the request; the except clause of
\* the branch returns the "Error: " text
adapter_raise ==
    /\ dphase = "Validated"
    /\ AdapterRaises(dname, dargs, dlist)
    /\ dadapter' = Py("raised", "AttributeError")
    /\ dresult' = PyList(<<TextContent("Error: ", Py("exception", "AttributeError"))>>)
    /\ dphase' = "Completed"
    /\ UNCHANGED <<env, lvars, tvars, dname, dargs, dscope, dtoken, dcalls, dopt, dlist,
                   doutcome>>

\* the adapter builds its headers with get_apollo_client and awaits the
\* upstream call; headers=None (no credential) does not stop the call
adapter_issue(s) ==
    /\ dphase = "Validated"
    /\ ~PrecheckFails(dname, dargs)
    /\ ~AdapterRaises(dname, dargs, dlist)
    /\ dscope' = s
    /\ dtoken' = get_auth_token(s, env)
    /\ dcalls' = Append(dcalls, [method |-> AdapterOf(BoundOf(dname)).method,
                                 path |-> AdapterOf(BoundOf(dname)).path,
                                 cred |-> get_apollo_client(s, env),
                                 carrier |-> CarrierOf(dname),
                                 entries |-> Request(dname, dargs, dopt, dlist)])
    /\ dphase' = "Dispatched"
    /\ UNCHANGED <<env, lvars, tvars, dname, dargs, dadapter, dresult, dopt, dlist,
                   doutcome>>

\* a failed upstream call sends the adapter back to issue it again
upstream_respond_retry(o) ==
    /\ dphase = "Dispatched"
    /\ doutcome' = o
    /\ IF o = "2xx"
       THEN /\ dadapter' = AdapterReturn(BoundOf(dname), o)
            /\ dresult' = Convert(ConvOf(dname), dadapter')
            /\ dphase' = "Completed"
       ELSE /\ dphase' = "Validated"
            /\ UNCHANGED <<dadapter, dresult>>
    /\ UNCHANGED <<env, lvars, tvars, dname, dargs, dscope, dtoken, dcalls, dopt, dlist>>

\* the upstream call ends; the adapter returns and the branch converts
upstream_respond(o) ==
    /\ dphase = "Dispatched"
    /\ dadapter' = AdapterReturn(BoundOf(dname), o)
    /\ dresult' = Convert(ConvOf(dname), dadapter')
    /\ dphase' = "Completed"
    /\ doutcome' = o
    /\ UNCHANGED <<env, lvars, tvars, dname, dargs, dscope, dtoken, dcalls, dopt, dlist>>

InitDispatch ==
    /\ env \in EnvValues
    /\ TInit
    /\ DInit
    /\ LInit

NextDispatch ==
    \/ Invoke
    \/ call_tool_no_branch
    \/ call_tool_reject
    \/ call_tool_accept
    \/ adapter_precheck_fail
    \/ \E s \in CtxValues : adapter_issue(s)
    \/ \E o \in Outcomes : upstream_respond(o)

SpecDispatch == InitDispatch /\ [][NextDispatch]_vars

\* call_tool and the adapter are straight-line code run by one task: a step
\* that can be taken is taken, and the awaited upstream call ends (with a
\* response or a failure; httpx gives up after its timeout)
SpecDispatchFair ==
    /\ InitDispatch
    /\ [][NextDispatch]_vars
    /\ WF_vars(call_tool_no_branch \/ call_tool_reject \/ call_tool_accept)
    /\ WF_vars(adapter_precheck_fail \/ \E s \in CtxValues : adapter_issue(s))
    /\ WF_vars(\E o \in Outcomes : upstream_respond(o))

\* ------------------------------------------ invocations with every argument
\* the transport hands an invocation to call_tool: any tool name, any
\* arguments mapping, with at most one optional argument and any list
InvokeAny ==
    /\ dphase = "Idle"
    /\ \E n \in Registry \cup UnknownNames : \E args \in ArgMaps(n) :
       \E opt \in (IF n \in Registry THEN OptChoices(n) ELSE {NoOpt}) :
       \E l \in (IF n \in Registry /\ HoldsList(n, args, opt)
                 THEN ListValues ELSE {<<>>}) :
        /\ dname' = n
        /\ dargs' = args
        /\ dopt' = opt
        /\ dlist' = l
    /\ dphase' = "Received"
    /\ UNCHANGED <<env, lvars, tvars, dscope, dtoken, dadapter, dresult, dcalls,
                   doutcome>>

\* the request is built with the environment credential, in a scope the
\* transport set to "", and the upstream answers 2xx
InitRequest ==
    /\ env = EnvKey
    /\ TInit
    /\ DInit
    /\ LInit

NextRequest ==
    \/ InvokeAny
    \/ call_tool_no_branch
    \/ call_tool_reject
    \/ call_tool_accept
    \/ adapter_precheck_fail
    \/ adapter_raise
    \/ adapter_issue("")
    \/ upstream_respond("2xx")

SpecRequest == InitRequest /\ [][NextRequest]_vars

\* ------------------------------------------------- the application's life
\* uvicorn.run(starlette_app) is about to be called: the lifespan has not
\* been entered
InitLifespan ==
    /\ env \in {NoEnv, EnvKey}
    /\ TInit
    /\ DInit
    /\ lifecycle = "Starting"
    /\ run_loop = "idle"
    /\ shutdowns = 0
    /\ hpost = NoPost

NextLifespan ==
    \/ lifespan_startup
    \/ lifespan_shutdown
    \/ \E c \in Served, h \in SseHeaders : handle_sse(c, h)
    \/ \E c \in Served, h \in HttpHeaders : handle_streamable_http(c, h)
    \/ \E c \in Served : handle_streamable_http_decode_error(c)
    \/ \E c \in Served, h \in SseHeaders : handle_post_message(c, h)
    \/ \E c \in Served : stateless_tool_call(c)
    \/ \E c \in Served : tool_call_return(c)
    \/ \E c \in Served : tool_call_throw(c)
    \/ \E c \in Served : handler_return(c)
    \/ \E c \in Served : handler_exception(c)
    \/ \E c \in Served : handler_cancel(c)

SpecLifespan == InitLifespan /\ [][NextLifespan]_vars

\* ------------------------------------------------------ claims, transports

\* C1: whatever the interleaving of the requests in flight, an upstream call
\* made for a request that carries a token uses exactly that token, and no
\* upstream call ever carries a token other than the one of the request it
\* is made for.
C1_CredentialIsolation ==
    \A c \in Ctx :
        (hpc[c] = "serving" /\ inv[c] # NoCall) =>
            /\ hhdr[c] \in Tokens => inv[c] = hhdr[c]
            /\ inv[c] \in Tokens => inv[c] = hhdr[c]

\* two requests with different tokens are in flight, each with an upstream
\* call of its own
C1_Witness ==
    \E c, d \in Ctx :
        /\ hpc[c] = "serving" /\ hpc[d] = "serving"
        /\ hhdr[c] \in Tokens /\ hhdr[d] \in Tokens /\ hhdr[c] # hhdr[d]
        /\ htransport[c] = "sse" /\ htransport[d] = "http"
        /\ inv[c] = hhdr[c] /\ inv[d] = hhdr[d]

\* C2: whenever a handler that has set the credential leaves (return,
\* exception or cancellation), the context holds again what it held just
\* before the handler set it.
C2_ScopeRestoredOnExit ==
    [][\A c \in Ctx :
        (hpc[c] = "serving" /\ hpc'[c] = "idle") =>
            auth_token_context'[c] = scopeBefore[c]]_vars

\* a handler that had set a token left by an exception or a cancellation
\* while its upstream call was in flight, and the context is empty again
C2_Witness ==
    \E c \in Ctx :
        /\ lastExit \in {"exception", "cancel"}
        /\ stale[c] # {}
        /\ hpc[c] = "idle"
        /\ auth_token_context[c] = MISSING

\* C3: a request without x-auth-token handled in a context in which an
\* earlier request failed mid-call never makes an upstream call with that
\* earlier request's token: its credential is the environment fallback, or
\* resolution failed.
C3_NoStaleToken ==
    \A c \in Ctx :
        (hpc[c] = "serving" /\ hhdr[c] = NoHeader /\ inv[c] # NoCall) =>
            /\ inv[c] \notin stale[c]
            /\ inv[c] \in {env, NoClient}
            /\ inv[c] = NoClient <=> env = NoEnv

\* the later request resolves its credential after an earlier request with a
\* token failed mid-call in the same context
C3_Witness ==
    \E c \in Ctx :
        /\ hpc[c] = "serving" /\ hhdr[c] = NoHeader /\ htransport[c] = "http"
        /\ stale[c] # {}
        /\ inv[c] = EnvKey

\* ------------------------------------------------------ claims, dispatcher

\* C4: get_auth_token returns the per-request token whenever a non-empty one
\* is set; with no token or an empty one in the scope it returns the
\* environment credential; with neither it fails; the environment credential
\* is never the answer while a non-empty per-request token is set.
C4_TokenResolution ==
    dscope # Never =>
        /\ dscope \in Tokens => dtoken = [ok |-> TRUE, token |-> dscope]
        /\ (dscope \in {MISSING, ""} /\ env = EnvKey) =>
                dtoken = [ok |-> TRUE, token |-> EnvKey]
        /\ (dscope \in {MISSING, ""} /\ env \in {NoEnv, ""}) => ~dtoken.ok
        /\ (dtoken.ok /\ dtoken.token = env) => dscope \notin Tokens

\* the scope holds the empty string the transports set for an absent header
\* and the adapter got the environment credential
C4_Witness ==
    /\ dphase = "Dispatched"
    /\ dscope = ""
    /\ env = EnvKey
    /\ dtoken = [ok |-> TRUE, token |-> EnvKey]

\* C5: when neither a per-request token nor an environment credential is
\* available, the invocation issues no upstream call and returns a text that
\* reports the credential failure.
C5_NoCredentialNoCall ==
    (dscope # Never /\ ~dtoken.ok) =>
        /\ Len(dcalls) = 0
        /\ dphase = "Completed" =>
                /\ dresult.py = "list"
                /\ Len(dresult.items) = 1
                /\ dresult.items[1].form = "Error: "

\* the required arguments of tool n that args leaves out or gives as null
NoneRequired(n, args) ==
    {i \in 1..Len(RequiredOf(n)) : IsNone(args[RequiredOf(n)[i]])}

\* C6: an invocation of a tool with required arguments in which one of them
\* is absent or null is Rejected and makes no upstream call.
C6_MissingRequiredRejected ==
    (/\ dname \in Registry
     /\ dphase \notin {"Idle", "Received"}
     /\ NoneRequired(dname, dargs) # {}) =>
        /\ dphase = "Rejected"
        /\ Len(dcalls) = 0

\* the array-typed required arguments of tool n that args gives as []
EmptyRequired(n, args) ==
    {i \in 1..Len(RequiredOf(n)) :
        /\ ArgType(n)[RequiredOf(n)[i]] = "array"
        /\ args[RequiredOf(n)[i]] = "empty_list"}

\* C7: an invocation that gives an array-typed required argument as an empty
\* list is Rejected and never reaches the adapter.
C7_EmptyListRejected ==
    (/\ dname \in Registry
     /\ dphase \notin {"Idle", "Received"}
     /\ EmptyRequired(dname, dargs) # {}) =>
        /\ dphase = "Rejected"
        /\ dadapter = NoValue
        /\ Len(dcalls) = 0

\* every schema-required argument is there with a value of its type
AllRequiredValid(n, args) ==
    \A i \in 1..Len(RequiredOf(n)) : Valid(args[RequiredOf(n)[i]])

\* exactly one upstream call, with the documented method and path
OneDocumentedCall ==
    /\ Len(dcalls) = 1
    /\ dname \in Documented =>
            /\ dcalls[1].method = DocOf(dname).method
            /\ dcalls[1].path = DocOf(dname).path

OneTextItem ==
    /\ dresult.py = "list"
    /\ Len(dresult.items) = 1
    /\ dresult.items[1].type = "text"

\* C9: for every tool name, arguments mapping and adapter outcome, call_tool
\* returns a list of exactly one text content item.
C9_AlwaysOneTextItem == dphase \in Terminal => OneTextItem

\* C10: an invocation naming a tool that is not in the registry makes no
\* upstream call and is reported as a text payload.
C10_UnknownToolRejected ==
    (dphase \in Terminal /\ dname \notin Registry) =>
        /\ Len(dcalls) = 0
        /\ OneTextItem

\* the failure classes of the upstream call
FailureClasses == {"non2xx", "transport", "unexpected"}

\* C11: whenever the adapter returns an error (HTTP-status, transport or
\* unexpected) or credential resolution fails, the text of the single
\* content item is "Error: " followed by the error message.
C11_ErrorTextHasErrorPrefix ==
    dphase = "Completed" =>
        /\ (doutcome \in FailureClasses /\ dadapter.py = "dict") =>
                /\ OneTextItem
                /\ dresult.items[1] = TextContent("Error: ", Py("str", dadapter.what))
        /\ (dscope # Never /\ ~dtoken.ok) =>
                /\ OneTextItem
                /\ dresult.items[1].form = "Error: "

\* C12: when the upstream answers non-2xx the adapter returns a structured
\* error with the status code and the upstream body, never the upstream
\* error body as a success payload.
C12_Non2xxIsStructuredError ==
    (dphase = "Completed" /\ doutcome = "non2xx") =>
        dadapter = Py("dict", "HTTP error")

\* C13: an HTTP-status error, a transport failure and any other failure each
\* give a structured error of the adapter that no other class gives.
C13_FailureClassesDistinct ==
    (dphase = "Completed" /\ doutcome \in FailureClasses) =>
        /\ dadapter.py = "dict"
        /\ \A o \in FailureClasses \ {doutcome} :
                AdapterReturn(dname, o) # dadapter

\* json.loads of the text of a content item, when the upstream body was
\* the JSON value B: B itself when the text is the body or json.dumps of the
\* parsed body; a string when the text is json.dumps of a str; the error
\* object when it is json.dumps of an error dict; otherwise no JSON
json_loads(item) ==
    CASE item.form = "verbatim" /\ item.of = Py("str", "body") -> "B"
      [] item.form = "json.dumps" /\ item.of = Py("json", "body") -> "B"
      [] item.form = "json.dumps" /\ item.of.py = "str" -> "a string"
      [] item.form = "json.dumps" /\ item.of.py = "dict" -> "an error object"
      [] OTHER -> "not JSON"

\* C14: when the upstream answers 2xx with a JSON body B, parsing the text
\* of the returned content item as JSON gives B, not a string that encodes
\* B and not an error message.
C14_JsonRoundTrip ==
    (dphase = "Completed" /\ doutcome = "2xx") =>
        /\ OneTextItem
        /\ json_loads(dresult.items[1]) = "B"

\* tool n has exactly one required argument and it is a scalar
SingleScalarRequired(n) ==
    /\ Len(RequiredOf(n)) = 1
    /\ ArgType(n)[RequiredOf(n)[1]] # "array"

\* C16: for every tool with exactly one required scalar argument R, an
\* invocation that omits R returns the text "Missing required parameter: R."
\* and makes no upstream call.
C16_MissingParameterNamed ==
    (/\ dname \in Registry
     /\ dphase \notin {"Idle", "Received"}
     /\ SingleScalarRequired(dname)
     /\ dargs[RequiredOf(dname)[1]] = "absent") =>
        /\ dphase = "Rejected"
        /\ dresult = PyList(<<TextContent("verbatim",
                Py("str", "Missing required parameter: "
                            \o RequiredOf(dname)[1] \o "."))>>)
        /\ Len(dcalls) = 0

\* apollo_view_account without account_id has been rejected with its message
C16_Witness ==
    /\ dname = "apollo_view_account"
    /\ dargs["account_id"] = "absent"
    /\ dphase = "Rejected"
    /\ dresult.items[1].of.what = "Missing required parameter: account_id."
    /\ Len(dcalls) = 0

\* ------------------------------------------------- claims, request building

\* d without a leading "www.", and d itself when it does not start with it
without_www_prefix(d) ==
    IF Len(d) >= Len(www) + 1 /\ SubSeq(d, 1, Len(www) + 1) = www \o <<".">>
    THEN SubSeq(d, Len(www) + 2, Len(d))
    ELSE d

\* C17: apollo_bulk_organisation_enrichment sends a domains[] list of the
\* length and order of its input, each element the input domain with a
\* leading "www." removed, every domain without that prefix unchanged.
C17_BulkDomainsStripped ==
    (dname = "apollo_bulk_organisation_enrichment" /\ Len(dcalls) = 1) =>
        LET sent == dcalls[1].entries IN
        /\ Len(sent) = Len(dlist)
        /\ \A i \in 1..Len(sent) :
                /\ sent[i].key = "domains" /\ sent[i].suffix = "[]"
                /\ sent[i].sent = "item"
                /\ sent[i].item = without_www_prefix(dlist[i])

\* the entries of the request that carry argument a
EntriesOf(a) == SelectSeq(dcalls[1].entries, LAMBDA e : e.arg = a)

\* C18: every list-valued argument that is forwarded is sent under a key
\* ending in [] as one entry per list element, in list order, never as one
\* comma-joined string.
C18_ListsSentPerElement ==
    Len(dcalls) = 1 =>
        \A k \in 1..Len(ParamsOf(dname)) :
            LET p == ParamsOf(dname)[k]
                mine == EntriesOf(p.arg)
            IN  ArgShape(dargs, dopt, p) = "list" =>
                    /\ Len(mine) = Len(dlist)
                    /\ \A i \in 1..Len(mine) :
                            /\ mine[i].suffix = "[]"
                            /\ mine[i].sent = "item"
                            /\ p.xform = "none" => mine[i].item = dlist[i]

\* apollo_update_contact_status_in_sequence has sent two different elements
\* for each of its two lists, in order
C18_Witness ==
    /\ dname = "apollo_update_contact_status_in_sequence"
    /\ dargs["emailer_campaign_ids"] = "list"
    /\ dargs["contact_ids"] = "list"
    /\ dlist = <<www_acme_io, foo_com>>
    /\ Len(dcalls) = 1
    /\ Len(EntriesOf("contact_ids")) = Len(dlist)
    /\ EntriesOf("contact_ids")[1].item = www_acme_io
    /\ EntriesOf("emailer_campaign_ids")[Len(dlist)].item = foo_com

\* the arguments the schema of tool n requires
RequiredArgs(n) == {RequiredOf(n)[i] : i \in 1..Len(RequiredOf(n))}

\* C19: an optional argument that is absent or null in the invocation does
\* not appear in the upstream request, neither in the query parameters nor
\* in the body.
C19_AbsentOptionalOmitted ==
    Len(dcalls) = 1 =>
        \A k \in 1..Len(ParamsOf(dname)) :
            LET p == ParamsOf(dname)[k] IN
            (/\ p.arg \notin RequiredArgs(dname)
             /\ ArgShape(dargs, dopt, p) \in {"absent", "null"}) =>
                EntriesOf(p.arg) = <<>>

\* ------------------------------------------------- claims, order of steps

\* the steps of an invocation: validation (Received to Rejected or
\* Validated), the call of the adapter (Validated), the upstream call
\* (Dispatched), the conversion of the result (Completed)
StepsOfInvocation ==
    {<<"Idle", "Received">>, <<"Received", "Rejected">>,
     <<"Received", "NoBranch">>, <<"Received", "Validated">>,
     <<"Validated", "Dispatched">>, <<"Validated", "Completed">>,
     <<"Dispatched", "Completed">>}

\* C20: within one invocation validation completes before the adapter is
\* invoked, the adapter is invoked before the single upstream call is
\* issued, the upstream call finishes before the result is converted, and
\* no step occurs after Completed or Rejected.
C20_StepsInOrder ==
    [][/\ dphase' # dphase => <<dphase, dphase'>> \in StepsOfInvocation
       /\ dphase' = "Validated" =>
            dphase = "Validated" \/ ~Rejects(dname, dargs)
       /\ dcalls' # dcalls =>
            /\ dphase = "Validated" /\ dphase' = "Dispatched"
            /\ dcalls = <<>> /\ Len(dcalls') = 1
       /\ dresult' # dresult =>
            /\ dresult = Pending
            /\ dphase' \in Terminal
            /\ dcalls' # <<>> => (dphase = "Dispatched" /\ doutcome' # "none")
       /\ dphase \in {"Completed", "Rejected"} => UNCHANGED dvars]_vars

\* apollo_update_account has been validated, has made its one upstream call
\* and has converted the 2xx answer
C20_Witness ==
    /\ dname = "apollo_update_account"
    /\ dargs["account_id"] = "str"
    /\ dphase = "Completed"
    /\ Len(dcalls) = 1
    /\ doutcome = "2xx"
    /\ dresult # Pending

\* ------------------------------------------------------- claims, no retry

\* C21: no invocation causes more than one upstream HTTP call: once the call
\* has ended in an HTTP-status error, a transport failure or an unexpected
\* error, the invocation is complete with that one call and none follows.
C21_NoRetry ==
    /\ Len(dcalls) <= 1
    /\ doutcome \in FailureClasses =>
          /\ Len(dcalls) = 1
          /\ dphase = "Completed"

C21_Witness ==
    /\ dname = "apollo_create_call_record"
    /\ doutcome = "non2xx"
    /\ dphase = "Completed"
    /\ Len(dcalls) = 1

\* ------------------------------------------------ claims, adapter failures

\* C22: no adapter function raises an exception to its caller: whenever the
\* adapter has ended, it has returned a value (the response or a structured
\* error), whatever the type or shape of the argument values.
C22_AdapterNeverRaises ==
    dphase = "Completed" => dadapter.py \in {"str", "json", "dict"}

\* ------------------------------------------- claims, registry and branches

\* C23: every tool name list_tools advertises is handled by exactly one
\* branch of call_tool, that branch awaits the adapter function of the same
\* name, and call_tool has no branch for a name list_tools does not
\* advertise; so an invocation is taken by a branch exactly when its name is
\* advertised, and an upstream call is the call of the adapter of that name.
C23_RegistryMatchesBranches ==
    /\ \A n \in Registry : Cardinality(Handles(n)) = 1 /\ BoundOf(n) = n
    /\ \A i \in 1..Len(BranchNames) : BranchNames[i] \in Registry
    /\ dphase = "NoBranch" => dname \notin Registry
    /\ dphase \in {"Validated", "Rejected", "Dispatched", "Completed"} =>
            dname \in Registry
    /\ Len(dcalls) = 1 =>
            /\ dcalls[1].method = AdapterOf(dname).method
            /\ dcalls[1].path = AdapterOf(dname).path

\* the last branch of the chain has taken an invocation and its adapter has
\* issued its call
C23_Witness ==
    /\ dname = BranchNames[Len(BranchNames)]
    /\ dname = "apollo_search_tasks"
    /\ dphase = "Dispatched"
    /\ dcalls[1].path = "/api/v1/tasks/search"

\* ------------------------------------------------------- claims, lifecycle

\* C24: once started the process is Running or ShuttingDown and nothing
\* else: the run-loop of the session manager is started before any request
\* is served, shutdown is entered at most once, and from ShuttingDown the
\* process never returns to Running.
C24_RunningThenShuttingDown ==
    /\ []((\E c \in Ctx : hpc[c] = "serving") =>
            (lifecycle # "Starting" /\ run_loop # "idle"))
    /\ [](lastExit # "none" => run_loop # "idle")
    /\ [](shutdowns <= 1)
    /\ [][(lifecycle # "Starting" =>
                lifecycle' \in {"Running", "ShuttingDown"})
           /\ (lifecycle = "ShuttingDown" =>
                (lifecycle' = "ShuttingDown" /\ run_loop' = "stopped"))
           /\ (lifecycle' = "Running" => run_loop' = "started")]_vars

\* the shutdown has been entered after a request was served, with a
\* connection still open
C24_Witness ==
    /\ lifecycle = "ShuttingDown"
    /\ shutdowns = 1
    /\ lastExit = "return"
    /\ \E c \in Ctx : hpc[c] = "serving" /\ htransport[c] = "sse"

\* ----------------------------------------------------- claims, termination

\* C25: every invocation eventually reaches a terminal state, Completed or
\* Rejected, given that the upstream call ends; it does not stay in
\* Received, Validated or Dispatched for ever.
C25_EventuallyTerminal ==
    (dphase = "Received") ~> (dphase \in {"Completed", "Rejected"})

\* ------------------------------------------------- claims, both transports

C27_SseCredentialFixedAtOpen ==
    /\ [](\A c \in Ctx :
            (hpc[c] = "serving" /\ htransport[c] = "sse") =>
                /\ auth_token_context[c] = OrEmpty(hhdr[c])
                /\ inv[c] # NoCall =>
                        inv[c] = get_apollo_client(OrEmpty(hhdr[c]), env))
    /\ [][\A c \in Ctx :
            (hpost' # hpost /\ hpc[c] = "serving") =>
                auth_token_context'[c] = auth_token_context[c]]_vars

\* a POST carrying another token has delivered an invocation, whose call
\* carries the token the connection was opened with
C27_Witness ==
    \E c \in Ctx :
        /\ hpc[c] = "serving" /\ htransport[c] = "sse"
        /\ hhdr[c] = "tokA"
        /\ hpost = "tokB"
        /\ inv[c] = "tokA"

\* ------------------------------------------- claims, schema and validation

\* the invocation is refused without an upstream call, by the branch of
\* call_tool or by the adapter
Refuses(n, args) == Rejects(n, args) \/ PrecheckFails(n, args)

\* the arguments mapping with argument a given a value of its type
GivenArg(n, args, a) == [args EXCEPT ![a] = GivenShape(ArgType(n)[a])]

\* the absence of argument a makes tool n refuse the invocation: it is
\* refused, and would not be with a given
AbsenceRefuses(n, args, a) ==
    /\ args[a] = "absent"
    /\ Refuses(n, args)
    /\ ~Refuses(n, GivenArg(n, args, a))

\* the invocation has ended without an upstream call and without a response
Refused ==
    /\ Len(dcalls) = 0
    /\ \/ dphase = "Rejected"
       \/ dphase = "Completed" /\ dadapter = Py("dict", "precheck")

\* C28 as claimed: for every tool, the arguments whose absence makes the
\* tool refuse the invocation without an upstream call are exactly the
\* arguments of the `required` list of its schema.
C28_RefusedAbsenceIsRequired ==
    (dname \in Registry /\ dphase \in Terminal) =>
        \A a \in DOMAIN dargs :
            /\ (a \in RequiredArgs(dname) /\ dargs[a] = "absent") => Refused
            /\ (Refused /\ AbsenceRefuses(dname, dargs, a)) =>
                    a \in RequiredArgs(dname)

\* C28 as amended: the same, except that apollo_create_account, whose schema
\* requires nothing, refuses for the absence of name when domain is absent
\* or null too, and for the absence of domain when name is.
C28_RefusedAbsenceIsRequiredOrNameDomain ==
    (dname \in Registry /\ dphase \in Terminal) =>
        \A a \in DOMAIN dargs :
            /\ (a \in RequiredArgs(dname) /\ dargs[a] = "absent") => Refused
            /\ (Refused /\ AbsenceRefuses(dname, dargs, a)) =>
                    \/ a \in RequiredArgs(dname)
                    \/ /\ dname = "apollo_create_account"
                       /\ RequiredArgs(dname) = {}
                       /\ a \in {"name", "domain"}
                       /\ \A b \in {"name", "domain"} : IsNone(dargs[b])

\* apollo_update_contact_owners is refused for the absence of owner_id alone
C28_Witness ==
    /\ dname = "apollo_update_contact_owners"
    /\ dargs["contact_ids"] = "list"
    /\ AbsenceRefuses(dname, dargs, "owner_id")
    /\ Refused

\* --------------------------------------- claims, apollo_create_account

\* C29: apollo_create_account invoked with neither name nor domain makes no
\* upstream call and ends with an error outcome for the caller, although
\* the `required` list of its schema is empty.
C29_CreateAccountNeedsNameOrDomain ==
    (/\ dname = "apollo_create_account"
     /\ IsNone(dargs["name"]) /\ IsNone(dargs["domain"])) =>
        /\ RequiredOf(dname) = <<>>
        /\ Len(dcalls) = 0
        /\ dphase \notin {"Rejected", "Dispatched"}
        /\ dphase \in Terminal =>
                /\ dadapter = Py("dict", "precheck")
                /\ Len(dresult.items) = 1
                /\ dresult.items[1].form = "Error: "

\* the invocation without any argument has ended with the error text
C29_Witness ==
    /\ dname = "apollo_create_account"
    /\ dargs["name"] = "absent" /\ dargs["domain"] = "absent"
    /\ dphase = "Completed"
    /\ dresult.items[1].form = "Error: "
    /\ dcalls = <<>>

\* ------------------------------------------------- claims, header decoding

\* C30: on the stateless transport a failure to decode the x-auth-token
\* header as UTF-8 comes before the credential scope is set: the step
\* leaves the credential context of every execution context as it was and
\* hands no request to the session manager.
C30_DecodeErrorBeforeScope ==
    [][(lastExit' = "decode" /\ lastExit # "decode") =>
            /\ auth_token_context' = auth_token_context
            /\ htoken' = htoken /\ scopeBefore' = scopeBefore
            /\ hpc' = hpc /\ hhdr' = hhdr /\ inv' = inv]_vars

\* a request with undecodable header bytes has failed in a context that
\* never held a credential, while another request is being served
C30_Witness ==
    /\ lastExit = "decode"
    /\ \E c, d \in Ctx :
        /\ hpc[c] = "idle" /\ auth_token_context[c] = MISSING
        /\ hpc[d] = "serving" /\ htransport[d] = "http"
        /\ auth_token_context[d] = "tokA"

====
